---- MODULE Spec2Model ----
(***************************************************************************)
(* A model of pumpkin_handler/__init__.py: the PumpkinHandler server       *)
(* handler of MCDReforged.  Python str values are TLA+ strings; a          *)
(* character is a string of length one.  Python values whose type matters  *)
(* (None, str, int, bool, tuple, list, re.Pattern, parse.Parser, re.Match) *)
(* are records tagged by the field t.                                      *)
(***************************************************************************)
EXTENDS Integers, Sequences, FiniteSets, TLC

VARIABLES
    handler,   \* the class of the handler instance in use (self / cls)
    line,      \* the text handed to the handler by the process reader
    clock,     \* time.localtime(time.time()) as <<hour, min, sec>>
    cache,     \* the two functools.lru_cache tables, keyed by cls
    info,      \* the Info object of the last parse call, as the call left it
    ret,       \* what the last parse call returned (PyNone when it raised)
    exc,       \* the exception the last parse call raised, or "none"
    call,      \* the last parse call: what it was given and what it went through
    last,      \* the last event extractor call and its result
    threads,   \* the threads making a first call of a cached classmethod
    cmd        \* the last message command built

vars == <<handler, line, clock, cache, info, ret, exc, call, last, threads, cmd>>

(***************************************************************************)
(* Python values                                                           *)
(***************************************************************************)
PyNone == [t |-> "None"]
PyStr(s) == [t |-> "str", v |-> s]
PyInt(n) == [t |-> "int", v |-> n]
PyBool(b) == [t |-> "bool", v |-> b]
PyBytes(s) == [t |-> "bytes", v |-> s]
PyTuple(seq) == [t |-> "tuple", v |-> seq]
PyList(seq) == [t |-> "list", v |-> seq]
RePattern(src) == [t |-> "re.Pattern", v |-> src]
ParseParser(fmt) == [t |-> "parse.Parser", v |-> fmt]
ReMatch(groups) == [t |-> "Match", v |-> groups]

\* body(v) with v evaluated once, before body is
Bind(v, body(_)) == CHOOSE y \in {body(x) : x \in {v}} : TRUE

(***************************************************************************)
(* Strings                                                                 *)
(***************************************************************************)
\* Python slices: indices beyond the ends are clamped
Clamp(s, n) == IF n < 0 THEN 0 ELSE IF n > Len(s) THEN Len(s) ELSE n
Take(s, n) == SubSeq(s, 1, Clamp(s, n))
Drop(s, n) == SubSeq(s, Clamp(s, n) + 1, Len(s))
Chr(s, i) == IF i >= 1 /\ i <= Len(s) THEN SubSeq(s, i, i) ELSE ""
StartsWith(s, p) == Len(s) >= Len(p) /\ Take(s, Len(p)) = p
EndsWith(s, p) == Len(s) >= Len(p) /\ Drop(s, Len(s) - Len(p)) = p
AllIn(s, class) == \A i \in 1..Len(s) : Chr(s, i) \in class
NoneIn(s, class) == \A i \in 1..Len(s) : Chr(s, i) \notin class
\* index of the first / last character of s that is in class, 0 when there is none
FirstIn(s, class) ==
    LET I == {i \in 1..Len(s) : Chr(s, i) \in class}
    IN  IF I = {} THEN 0 ELSE CHOOSE i \in I : \A j \in I : i <= j
LastIn(s, class) ==
    LET I == {i \in 1..Len(s) : Chr(s, i) \in class}
    IN  IF I = {} THEN 0 ELSE CHOOSE i \in I : \A j \in I : i >= j
\* length of the longest prefix / suffix of s made of characters of class
LeadingRun(s, class) ==
    LET I == {i \in 1..Len(s) : Chr(s, i) \notin class}
    IN  IF I = {} THEN Len(s) ELSE (CHOOSE i \in I : \A j \in I : i <= j) - 1
TrailingRun(s, class) ==
    LET I == {i \in 1..Len(s) : Chr(s, i) \notin class}
    IN  IF I = {} THEN Len(s) ELSE Len(s) - (CHOOSE i \in I : \A j \in I : i >= j)

Lower == {"a", "b", "c", "d", "e", "f", "g", "h", "i", "j", "k", "l", "m",
          "n", "o", "p", "q", "r", "s", "t", "u", "v", "w", "x", "y", "z"}
Upper == {"A", "B", "C", "D", "E", "F", "G", "H", "I", "J", "K", "L", "M",
          "N", "O", "P", "Q", "R", "S", "T", "U", "V", "W", "X", "Y", "Z"}
Digit == {"0", "1", "2", "3", "4", "5", "6", "7", "8", "9"}
Newline == {"\n"}
Whitespace == {" ", "\t", "\n", "\r", "\f"}
WordChar == Lower \cup Upper \cup Digit \cup {"_"}
\* the escape character \033, written as a printable stand-in
ESC == "~"

DigitValue(c) == CHOOSE n \in 0..9 : Chr("0123456789", n + 1) = c
RECURSIVE StrToInt(_)
\* int(s) for a non-empty string of decimal digits
StrToInt(s) ==
    IF Len(s) = 0 THEN 0
    ELSE 10 * StrToInt(Take(s, Len(s) - 1)) + DigitValue(Chr(s, Len(s)))

(***************************************************************************)
(* The regular expressions of the class, each as re.Pattern.fullmatch      *)
(* computes it: a Match with its named groups, or None.  '.' does not      *)
(* match a newline; a negated class does.                                  *)
(***************************************************************************)
NameMin == 3
NameMax == 16
BuildLen == 8

\* the name pattern matched as a prefix (re.match) instead of the full string
PlayerNamePrefixMatch(s) ==
    IF LeadingRun(s, WordChar) >= NameMin THEN ReMatch([all |-> s]) ELSE PyNone

\* __player_name_regex = [a-zA-Z0-9_]{3,16}
PlayerNameFullmatch(s) ==
    IF Len(s) >= NameMin /\ Len(s) <= NameMax /\ AllIn(s, WordChar)
    THEN ReMatch([all |-> s]) ELSE PyNone

\* the content pattern without its optional numeric tag group
ContentRegexNoTag(s) ==
    LET k == FirstIn(s, {"]"})
        rest == Drop(s, k)
    IN  IF StartsWith(s, "[") /\ k >= 3 /\ StartsWith(rest, " ") /\ NoneIn(rest, Newline)
        THEN ReMatch([logging |-> Take(Drop(s, 1), k - 2), content |-> Drop(rest, 1)])
        ELSE PyNone

\* \[(?P<logging>[^]]+)\](?: \((\d+)\))? (?P<content>.*)
\* [^]]+ runs to the first ']'.  The optional group is tried first (it is
\* greedy) and is given up only when the rest does not match after it.
ContentRegexFullmatch(s) ==
    LET k == FirstIn(s, {"]"})
        rest == Drop(s, k)
        n == LeadingRun(Drop(rest, 2), Digit)
        afterTag == Drop(rest, 2 + n + 1)
        withTag == /\ StartsWith(rest, " (")
                   /\ n >= 1
                   /\ Chr(rest, 2 + n + 1) = ")"
                   /\ StartsWith(afterTag, " ")
                   /\ NoneIn(afterTag, Newline)
        withoutTag == StartsWith(rest, " ") /\ NoneIn(rest, Newline)
    IN  IF ~(StartsWith(s, "[") /\ k >= 3) THEN PyNone
        ELSE IF withTag
             THEN ReMatch([logging |-> Take(Drop(s, 1), k - 2), content |-> Drop(afterTag, 1)])
        ELSE IF withoutTag
             THEN ReMatch([logging |-> Take(Drop(s, 1), k - 2), content |-> Drop(rest, 1)])
        ELSE PyNone

\* \<chat\> (?P<name>[^:]+): (?P<message>.*)
ChatRegexFullmatch(s) ==
    LET rest == Drop(s, Len("<chat> "))
        k == FirstIn(rest, {":"})
    IN  IF /\ StartsWith(s, "<chat> ")
           /\ k >= 2
           /\ Chr(rest, k + 1) = " "
           /\ NoneIn(Drop(rest, k + 1), Newline)
        THEN ReMatch([name |-> Take(rest, k - 1), message |-> Drop(rest, k + 1)])
        ELSE PyNone

\* (?P<name>[^ ]+)<tail>, for the tails " joined the game" and " left the game"
NameThenFullmatch(s, tail) ==
    LET k == FirstIn(s, {" "})
    IN  IF k >= 2 /\ Drop(s, k - 1) = tail
        THEN ReMatch([name |-> Take(s, k - 1)])
        ELSE PyNone

\* __player_joined_regex = (?P<name>[^ ]+) joined the game
PlayerJoinedFullmatch(s) == NameThenFullmatch(s, " joined the game")

\* __player_left_regex = (?P<name>[^ ]+) left the game
PlayerLeftFullmatch(s) == NameThenFullmatch(s, " left the game")

\* Starting Pumpkin ([^ ]+) \([a-z0-9_]{8}\) for Minecraft (?P<version>.+) \(Protocol (d+)\)
\* The last group is d+, one or more letters 'd', as the source has it.
ServerVersionFullmatch(s) ==
    LET head == "Starting Pumpkin "
        r1 == Drop(s, Len(head))
        k == FirstIn(r1, {" "})
        r2 == Drop(r1, k - 1)
        build == Take(Drop(r2, 2), BuildLen)
        mid == ") for Minecraft "
        r3 == Drop(r2, 2 + BuildLen)
        r4 == Drop(r3, Len(mid))
        body == Take(r4, Len(r4) - 1)
        m == TrailingRun(body, {"d"})
        proto == " (Protocol "
        front == Take(body, Len(body) - m)
        version == Take(front, Len(front) - Len(proto))
    IN  IF /\ StartsWith(s, head)
           /\ k >= 2
           /\ StartsWith(r2, " (")
           /\ Len(build) = BuildLen
           /\ AllIn(build, Lower \cup Digit \cup {"_"})
           /\ StartsWith(r3, mid)
           /\ EndsWith(r4, ")")
           /\ m >= 1
           /\ EndsWith(front, proto)
           /\ Len(version) >= 1
           /\ NoneIn(version, Newline)
        THEN ReMatch([version |-> version])
        ELSE PyNone

\* You now can connect to the server; listening on (?P<ip>\S+):(?P<port>\d+)
\* \S+ is greedy and may hold ':'; the port is what follows the last ':'.
ServerAddressFullmatch(s) ==
    LET head == "You now can connect to the server; listening on "
        rest == Drop(s, Len(head))
        k == LastIn(rest, {":"})
        ip == Take(rest, k - 1)
        port == Drop(rest, k)
    IN  IF /\ StartsWith(s, head)
           /\ k >= 2
           /\ NoneIn(ip, Whitespace)
           /\ Len(port) >= 1
           /\ AllIn(port, Digit)
        THEN ReMatch([ip |-> ip, port |-> port])
        ELSE PyNone

\* RCON running on [\w.]+:\d+
RconStartedFullmatch(s) ==
    LET head == "RCON running on "
        rest == Drop(s, Len(head))
        n == LeadingRun(rest, WordChar \cup {"."})
        port == Drop(rest, n + 1)
    IN  IF /\ StartsWith(s, head)
           /\ n >= 1
           /\ Chr(rest, n + 1) = ":"
           /\ Len(port) >= 1
           /\ AllIn(port, Digit)
        THEN ReMatch([all |-> s]) ELSE PyNone

\* Stopping the server
ServerStoppingFullmatch(s) ==
    IF s = "Stopping the server" THEN ReMatch([all |-> s]) ELSE PyNone

(***************************************************************************)
(* Handler classes.  PumpkinHandler is the class of the source; SubA and   *)
(* SubB are subclasses that override the two formatter classmethods, the   *)
(* way the source lets a subclass do.                                      *)
(***************************************************************************)
Handlers == {"PumpkinHandler", "SubA", "SubB"}

ContentSrc == "\\[(?P<logging>[^]]+)\\](?: \\((\\d+)\\))? (?P<content>.*)"
ChatSrc == "\\<chat\\> (?P<name>[^:]+): (?P<message>.*)"
RankChatSrc == "\\<chat\\> \\[[^]]+\\] (?P<name>[^:]+): (?P<message>.*)"
PlainFmt == "{logging}: {content}"
AngleFmt == "<{name}> {message}"

\* get_content_parsing_formatter: the class returns one compiled pattern;
\* an override may return a str, a pattern or a list of them
GetContentParsingFormatter(cls) ==
    CASE cls = "PumpkinHandler" -> RePattern(ContentSrc)
      [] cls = "SubA" -> PyList(<<PyStr(PlainFmt), RePattern(ContentSrc)>>)
      [] cls = "SubB" -> PyList(<<RePattern(ContentSrc), PyStr(PlainFmt)>>)

\* get_player_message_parsing_formatter
GetPlayerMessageParsingFormatter(cls) ==
    CASE cls = "PumpkinHandler" -> PyList(<<RePattern(ChatSrc)>>)
      [] cls = "SubA" -> PyList(<<RePattern(ChatSrc), RePattern(RankChatSrc)>>)
      [] cls = "SubB" -> PyList(<<PyStr(AngleFmt), RePattern(ChatSrc)>>)

\* [parse.Parser(fmt) if isinstance(fmt, str) else fmt for fmt in formatters]
ToParser(fmt) == IF fmt.t = "str" THEN ParseParser(fmt.v) ELSE fmt
ToParsers(formatters) ==
    PyList([i \in 1..Len(formatters.v) |-> ToParser(formatters.v[i])])

\* the body of __get_content_parsers
GetContentParsers(cls) ==
    LET formatters == GetContentParsingFormatter(cls)
        listed == IF formatters.t = "str" \/ formatters.t = "re.Pattern"
                  THEN PyList(<<formatters>>) ELSE formatters
    IN  ToParsers(listed)

\* the body of __get_player_message_parsers
GetPlayerMessageParsers(cls) == ToParsers(GetPlayerMessageParsingFormatter(cls))

CacheKinds == {"content", "player_message"}
Compute(kind, cls) ==
    IF kind = "content" THEN GetContentParsers(cls) ELSE GetPlayerMessageParsers(cls)

\* a cache key that leaves the class out
SharedKey(cls) == "PumpkinHandler"

\* functools.lru_cache around a classmethod keys its entries by the arguments
\* of the call, which are (cls,)
CacheKey(cls) == cls

\* one entry per key, filled on the first call and returned by the later ones
CacheLookup(c, kind, cls) ==
    IF c[kind][CacheKey(cls)] = PyNone THEN Compute(kind, cls) ELSE c[kind][CacheKey(cls)]
CacheStore(c, kind, cls) ==
    IF c[kind][CacheKey(cls)] = PyNone
    THEN [c EXCEPT ![kind][CacheKey(cls)] = Compute(kind, cls)] ELSE c
EmptyCache == [kind \in CacheKinds |-> [cls \in Handlers |-> PyNone]]

(***************************************************************************)
(* Matching with a parser of either kind                                   *)
(***************************************************************************)
\* \<chat\> \[[^]]+\] (?P<name>[^:]+): (?P<message>.*)   (SubA's second chat pattern)
RankChatRegexFullmatch(s) ==
    LET head == "<chat> ["
        r1 == Drop(s, Len(head))
        k == FirstIn(r1, {"]"})
        r2 == Drop(r1, k + 1)
        j == FirstIn(r2, {":"})
    IN  IF /\ StartsWith(s, head)
           /\ k >= 2
           /\ Chr(r1, k + 1) = " "
           /\ j >= 2
           /\ Chr(r2, j + 1) = " "
           /\ NoneIn(Drop(r2, j + 1), Newline)
        THEN ReMatch([name |-> Take(r2, j - 1), message |-> Drop(r2, j + 1)])
        ELSE PyNone

\* parse.Parser("<first><sep><second>").parse(s) for two untyped fields: each
\* field is a lazy .+? (newlines included), the whole string must match
ParseTwoFields(s, head, first, sep, second) ==
    LET r == Drop(s, Len(head))
        K == {k \in 1..Len(r) : /\ SubSeq(r, k + 1, Clamp(r, k + Len(sep))) = sep
                                /\ Len(r) > k + Len(sep)}
        k == CHOOSE i \in K : \A j \in K : i <= j
    IN  IF StartsWith(s, head) /\ K # {}
        THEN ReMatch((first :> Take(r, k)) @@ (second :> Drop(r, k + Len(sep))))
        ELSE PyNone

ParserParse(parser, s) ==
    CASE parser.v = PlainFmt -> ParseTwoFields(s, "", "logging", ": ", "content")
      [] parser.v = AngleFmt -> ParseTwoFields(s, "<", "name", "> ", "message")

PatternFullmatch(parser, s) ==
    CASE parser.v = ContentSrc -> ContentRegexFullmatch(s)
      [] parser.v = ChatSrc -> ChatRegexFullmatch(s)
      [] parser.v = RankChatSrc -> RankChatRegexFullmatch(s)

\* if isinstance(parser, parse.Parser): parser.parse(..) else: parser.fullmatch(..)
ParserMatch(parser, s) ==
    IF parser.t = "parse.Parser" THEN ParserParse(parser, s) ELSE PatternFullmatch(parser, s)

(***************************************************************************)
(* Info (mcdreforged.info_reactor.info) and the line classifier            *)
(***************************************************************************)
\* Info(source, raw_content): every other field starts as None
Info(source, raw) ==
    [source |-> source, raw_content |-> raw, content |-> PyNone,
     hour |-> PyNone, min |-> PyNone, sec |-> PyNone,
     logging_level |-> PyNone, player |-> PyNone]

IsFromConsole(inf) == inf.source = "CONSOLE"
IsFromServer(inf) == inf.source = "SERVER"
IsPlayer(inf) == IsFromServer(inf) /\ inf.player # PyNone
IsUser(inf) == IsFromConsole(inf) \/ IsPlayer(inf)

\* length of a console colour code \033\[(\d+(;\d+)?)?m at the start of s, 0 when none
ColorCodeLen(s) ==
    LET r == Drop(s, 2)
        n1 == LeadingRun(r, Digit)
        n2 == LeadingRun(Drop(r, n1 + 1), Digit)
    IN  IF ~StartsWith(s, ESC \o "[") THEN 0
        ELSE IF n1 >= 1 /\ Chr(r, n1 + 1) = ";" /\ n2 >= 1 /\ Chr(r, n1 + 1 + n2 + 1) = "m"
             THEN 2 + n1 + 1 + n2 + 1
        ELSE IF Chr(r, n1 + 1) = "m" THEN 2 + n1 + 1
        ELSE 0

RECURSIVE CleanConsoleColorCode(_)
\* string_utils.clean_console_color_code: every colour code removed
CleanConsoleColorCode(s) ==
    LET k == FirstIn(s, {ESC})
        n == ColorCodeLen(Drop(s, k - 1))
    IN  IF k = 0 THEN s
        ELSE IF n > 0 THEN Take(s, k - 1) \o CleanConsoleColorCode(Drop(s, k - 1 + n))
        ELSE Take(s, k) \o CleanConsoleColorCode(Drop(s, k))

NoExc == PyNone
Raise(type, msg) == [t |-> type, msg |-> msg]

\* _get_server_stdout_raw_result
GetServerStdoutRawResult(text) ==
    IF text.t # "str"
    THEN [exc |-> Raise("TypeError", "The text to parse should be a string"), info |-> PyNone]
    ELSE [exc |-> NoExc,
          info |-> [Info("SERVER", text) EXCEPT
                        !.content = PyStr(CleanConsoleColorCode(text.v)),
                        !.hour = PyInt(0), !.min = PyInt(0), !.sec = PyInt(0)]]

(***************************************************************************)
(* The content parser                                                      *)
(***************************************************************************)
RECURSIVE ContentLoop(_, _, _, _)
RECURSIVE ContentLoopNoBreak(_, _, _, _, _)
\* the loop without its break: every parser is evaluated, the last match is kept
ContentLoopNoBreak(parsers, content, i, tried, kept) ==
    IF i > Len(parsers) THEN [parsed |-> kept, tried |-> tried]
    ELSE Bind(ParserMatch(parsers[i], content), LAMBDA parsed :
             ContentLoopNoBreak(parsers, content, i + 1, Append(tried, i),
                                IF parsed # PyNone THEN parsed ELSE kept))
ContentLoopLast(parsers, content, i, tried) ==
    ContentLoopNoBreak(parsers, content, i, tried, PyNone)

\* the for/break/else loop of _content_parse from parser i on; tried lists
\* the parsers evaluated so far
ContentLoop(parsers, content, i, tried) ==
    IF i > Len(parsers) THEN [parsed |-> PyNone, tried |-> tried]
    ELSE Bind(ParserMatch(parsers[i], content), LAMBDA parsed :
             IF parsed # PyNone
             THEN [parsed |-> parsed, tried |-> Append(tried, i)]
             ELSE ContentLoop(parsers, content, i + 1, Append(tried, i)))

\* _content_parse with the timestamp assigned before the loop
ContentParseEager(parsers, inf, now) ==
    Bind(ContentLoop(parsers.v, inf.content.v, 1, <<>>), LAMBDA loop :
        Bind([inf EXCEPT !.hour = PyInt(now[1]), !.min = PyInt(now[2]), !.sec = PyInt(now[3])],
             LAMBDA stamped :
                IF loop.parsed = PyNone
                THEN [exc |-> Raise("ValueError", "Unrecognized input: " \o inf.content.v),
                      info |-> stamped, tried |-> loop.tried]
                ELSE [exc |-> NoExc,
                      info |-> [stamped EXCEPT !.logging_level = PyStr(loop.parsed.v.logging),
                                               !.content = PyStr(loop.parsed.v.content)],
                      tried |-> loop.tried]))

\* _content_parse(cls, info) at wall-clock time now, with the parsers the
\* cached classmethod returned
ContentParse(parsers, inf, now) ==
    Bind(ContentLoop(parsers.v, inf.content.v, 1, <<>>), LAMBDA loop :
        IF loop.parsed = PyNone
        THEN [exc |-> Raise("ValueError", "Unrecognized input: " \o inf.content.v),
              info |-> inf, tried |-> loop.tried]
        ELSE [exc |-> NoExc,
              info |-> [inf EXCEPT !.hour = PyInt(now[1]),
                                   !.min = PyInt(now[2]),
                                   !.sec = PyInt(now[3]),
                                   !.logging_level = PyStr(loop.parsed.v.logging),
                                   !.content = PyStr(loop.parsed.v.content)],
              tried |-> loop.tried])

\* _verify_player_name
VerifyPlayerName(name) == PlayerNameFullmatch(name) # PyNone

RECURSIVE ChatLoop(_, _, _)
RECURSIVE ChatLoopStopAtMatch(_, _, _)
\* the chat loop leaving at the first parser that matches, valid name or not
ChatLoopStopAtMatch(parsers, content, i) ==
    IF i > Len(parsers) THEN PyNone
    ELSE Bind(ParserMatch(parsers[i], content), LAMBDA parsed :
             IF parsed # PyNone
             THEN IF VerifyPlayerName(parsed.v.name)
                  THEN PyTuple(<<parsed.v.name, parsed.v.message>>) ELSE PyNone
             ELSE ChatLoopStopAtMatch(parsers, content, i + 1))

\* the loop of parse_server_stdout over the chat parsers from parser i on:
\* the <<name, message>> assigned to the record, or None when it ends without one
ChatLoop(parsers, content, i) ==
    IF i > Len(parsers) THEN PyNone
    ELSE Bind(ParserMatch(parsers[i], content), LAMBDA parsed :
             IF parsed # PyNone /\ VerifyPlayerName(parsed.v.name)
             THEN PyTuple(<<parsed.v.name, parsed.v.message>>)
             ELSE ChatLoop(parsers, content, i + 1))

\* the chat extraction of parse_server_stdout on the record the base class returned
ExtractChat(parsers, result) ==
    Bind(ChatLoop(parsers.v, result.content.v, 1), LAMBDA found :
        IF found = PyNone THEN result
        ELSE [result EXCEPT !.player = PyStr(found.v[1]), !.content = PyStr(found.v[2])])

(***************************************************************************)
(* The event extractors                                                    *)
(***************************************************************************)
ParsePlayerJoined(inf) ==
    Bind(PlayerJoinedFullmatch(inf.content.v), LAMBDA m :
        IF ~IsUser(inf) /\ m # PyNone /\ VerifyPlayerName(m.v.name)
        THEN PyStr(m.v.name) ELSE PyNone)

ParsePlayerLeft(inf) ==
    Bind(PlayerLeftFullmatch(inf.content.v), LAMBDA m :
        IF ~IsUser(inf) /\ m # PyNone /\ VerifyPlayerName(m.v.name)
        THEN PyStr(m.v.name) ELSE PyNone)

ParseServerVersion(inf) ==
    Bind(ServerVersionFullmatch(inf.content.v), LAMBDA m :
        IF ~IsUser(inf) /\ m # PyNone THEN PyStr(m.v.version) ELSE PyNone)

ParseServerAddress(inf) ==
    Bind(ServerAddressFullmatch(inf.content.v), LAMBDA m :
        IF ~IsUser(inf) /\ m # PyNone
        THEN PyTuple(<<PyStr(m.v.ip), PyInt(StrToInt(m.v.port))>>) ELSE PyNone)

TestServerStartupDone(inf) ==
    PyBool(IsFromServer(inf) /\ ServerAddressFullmatch(inf.content.v) # PyNone)

TestRconStarted(inf) ==
    PyBool(IsFromServer(inf) /\ RconStartedFullmatch(inf.content.v) # PyNone)

TestServerStopping(inf) ==
    PyBool(IsFromServer(inf) /\ ServerStoppingFullmatch(inf.content.v) # PyNone)

(***************************************************************************)
(* Inputs: the lines the server prints and the console types               *)
(***************************************************************************)
MaxNameLen == 17

RECURSIVE Rep(_, _)
Rep(c, n) == IF n = 0 THEN "" ELSE c \o Rep(c, n - 1)

Names == {Rep("x", n) : n \in 0..MaxNameLen} \cup {"Steve", "A_1", "a!c", "Bob"}

AddressHead == "You now can connect to the server; listening on "
VersionHead == "Starting Pumpkin 0.1.0 (abcdef12) for Minecraft "

EventContents ==
    {n \o " joined the game" : n \in Names} \cup
    {n \o " left the game" : n \in {"", "xx", "xxx", "Steve", "a!c", Rep("x", MaxNameLen)}} \cup
    {"Steve joined the game.", "Steve joined  the game", "Steve left the game\n",
     VersionHead \o "1.21 (Protocol 763)",
     VersionHead \o "1.21 (Protocol d)",
     VersionHead \o "1.21 (Protocol ddd)",
     "Starting Pumpkin 0.1.0 (abcdef1) for Minecraft 1.21 (Protocol 763)",
     "Starting Pumpkin 0.1.0 (abcdef1) for Minecraft 1.21 (Protocol d)",
     "Starting Pumpkin 0.1.0 (ABCDEF12) for Minecraft 1.21 (Protocol 763)",
     AddressHead \o "0.0.0.0:25565",
     AddressHead \o "[::1]:25565",
     AddressHead \o "0.0.0.0",
     AddressHead \o "0.0.0.0:",
     "RCON running on 0.0.0.0:25575",
     "RCON running on 0.0.0.0",
     "Stopping the server",
     "Stopping the server now",
     "hello world", "(1) x", "(1)", "(1) ", "a: b", "a\nb", ""}

ChatMessages ==
    {"hi", "", "a: b", "Stopping the server", "Bob joined the game",
     "Bob left the game", AddressHead \o "0.0.0.0:25565",
     "RCON running on 0.0.0.0:25575", VersionHead \o "1.21 (Protocol d)",
     VersionHead \o "1.21 (Protocol 763)"}
ChatContents ==
    {"<chat> Bob: " \o m : m \in ChatMessages} \cup
    {"<chat> " \o n \o ": hi" : n \in {"ab", "a!c", "[VIP] Bob", "[VIP] a!c",
                                       Rep("x", NameMax), Rep("x", MaxNameLen)}} \cup
    {"<chat> [VIP] Bob: Stopping the server", "<chat> Bob:hi", "<chat> : hi", "<Bob> hi"}

OtherPrefixes == {"[WARN] (12) ", "Server thread: "}
OtherContents ==
    {"Steve joined the game", "xx left the game", "Stopping the server", "(1) x",
     AddressHead \o "0.0.0.0:25565", "<chat> Bob: hi", "<chat> Bob: Stopping the server",
     "<chat> [VIP] Bob: hi", "<Bob> hi", ""}

StdoutTexts ==
    {PyStr("[INFO] " \o c) : c \in EventContents \cup ChatContents} \cup
    {PyStr(p \o c) : p \in OtherPrefixes, c \in OtherContents} \cup
    {PyStr(c) : c \in {"", "[INFO]", "[INFO]x", "[] x", "INFO] x", "[a]] x: y",
                       "hello", "Steve joined the game", "Stopping the server",
                       "[IN\nFO] x", "[INFO] () x", "[INFO] (1)x", "[INFO]  (1) x",
                       ESC \o "[0m[INFO] " \o ESC \o "[1;31mStopping the server" \o ESC \o "[m",
                       "[INFO] " \o ESC \o "[x" \o ESC}} \cup
    {PyBytes("[INFO] hi"), PyNone}

Clocks == {<<0, 0, 0>>, <<13, 5, 59>>}

(***************************************************************************)
(* The parse calls                                                         *)
(***************************************************************************)
NoCall == [op |-> "none"]
NoLast == [op |-> "none"]

\* AbstractServerHandler.parse_server_stdout, which PumpkinHandler's calls as
\* super(): the raw result of the classifier, handed to _content_parse
SuperParseServerStdout(cls, text, now, c) ==
    Bind(GetServerStdoutRawResult(text), LAMBDA raw :
        IF raw.exc # NoExc
        THEN [exc |-> raw.exc, info |-> PyNone, cache |-> c, raw |-> PyNone, tried |-> <<>>]
        ELSE Bind(ContentParse(CacheLookup(c, "content", cls), raw.info, now), LAMBDA cp :
                 [exc |-> cp.exc, info |-> cp.info, cache |-> CacheStore(c, "content", cls),
                  raw |-> raw.info, tried |-> cp.tried]))

\* parse_server_stdout(self, text) as a whole, with the cache as it leaves it:
\* an exception of super() ends the call before the chat parsers are fetched
ParseServerStdoutResult(cls, text, now, c) ==
    Bind(SuperParseServerStdout(cls, text, now, c), LAMBDA sup :
        IF sup.exc # NoExc
        THEN [exc |-> sup.exc, info |-> sup.info, ret |-> PyNone, cache |-> sup.cache,
              raw |-> sup.raw, parsed |-> PyNone, tried |-> sup.tried]
        ELSE Bind(ExtractChat(CacheLookup(sup.cache, "player_message", cls), sup.info),
                  LAMBDA result :
                 [exc |-> NoExc, info |-> result, ret |-> result,
                  cache |-> CacheStore(sup.cache, "player_message", cls),
                  raw |-> sup.raw, parsed |-> sup.info, tried |-> sup.tried]))

ParseServerStdout ==
    \E r \in {ParseServerStdoutResult(handler, line, clock, cache)} :
        /\ line \in StdoutTexts
        /\ info' = r.info
        /\ ret' = r.ret
        /\ exc' = r.exc
        /\ cache' = r.cache
        /\ call' = [op |-> "parse_server_stdout", text |-> line, now |-> clock,
                    raw |-> r.raw, parsed |-> r.parsed, tried |-> r.tried]
        /\ last' = NoLast
        /\ UNCHANGED <<handler, line, clock, threads, cmd>>

\* AbstractServerHandler.parse_console_command: console input is tagged
\* CONSOLE and is not content-parsed
ParseConsoleCommandResult(text, now) ==
    [Info("CONSOLE", text) EXCEPT
        !.hour = PyInt(now[1]), !.min = PyInt(now[2]), !.sec = PyInt(now[3]),
        !.content = text]

ParseConsoleCommand ==
    \E r \in {ParseConsoleCommandResult(line, clock)} :
        /\ line.t = "str"
        /\ info' = r
        /\ ret' = r
        /\ exc' = NoExc
        /\ call' = [op |-> "parse_console_command", text |-> line, now |-> clock,
                    raw |-> PyNone, parsed |-> PyNone, tried |-> <<>>]
        /\ last' = NoLast
        /\ UNCHANGED <<handler, line, clock, cache, threads, cmd>>

\* the wall clock moves on
Tick ==
    /\ clock' \in Clocks \ {clock}
    /\ UNCHANGED <<handler, line, cache, info, ret, exc, call, last, threads, cmd>>

(***************************************************************************)
(* The dispatcher's calls of the event extractors on the returned record   *)
(***************************************************************************)
Extract(op, result) ==
    /\ ret # PyNone
    /\ last' = [op |-> op, result |-> result]
    /\ UNCHANGED <<handler, line, clock, cache, info, ret, exc, call, threads, cmd>>

CallParsePlayerJoined == Extract("parse_player_joined", ParsePlayerJoined(ret))
CallParsePlayerLeft == Extract("parse_player_left", ParsePlayerLeft(ret))
CallParseServerVersion == Extract("parse_server_version", ParseServerVersion(ret))
CallParseServerAddress == Extract("parse_server_address", ParseServerAddress(ret))
CallTestServerStartupDone == Extract("test_server_startup_done", TestServerStartupDone(ret))
CallTestRconStarted == Extract("test_rcon_started", TestRconStarted(ret))
CallTestServerStopping == Extract("test_server_stopping", TestServerStopping(ret))

NoThreads == <<>>
NoCmd == [op |-> "none"]

Init ==
    /\ handler \in Handlers
    /\ line \in StdoutTexts
    /\ clock \in Clocks
    /\ cache = EmptyCache
    /\ info = PyNone
    /\ ret = PyNone
    /\ exc = NoExc
    /\ call = NoCall
    /\ last = NoLast
    /\ threads = NoThreads
    /\ cmd = NoCmd

Next ==
    \/ ParseServerStdout
    \/ ParseConsoleCommand
    \/ Tick
    \/ CallParsePlayerJoined
    \/ CallParsePlayerLeft
    \/ CallParseServerVersion
    \/ CallParseServerAddress
    \/ CallTestServerStartupDone
    \/ CallTestRconStarted
    \/ CallTestServerStopping

Spec == Init /\ [][Next]_vars

(***************************************************************************)
(* Concurrent first calls of the cached classmethods.  A thread looks the  *)
(* key up; on a miss it runs the classmethod, which builds its list one    *)
(* parser at a time in a local of its own, and lru_cache stores the list   *)
(* the call returned unless another thread stored one meanwhile.           *)
(***************************************************************************)
NumThreads == 2
Threads == 1..NumThreads
CacheClasses == {"PumpkinHandler", "SubA"}

IdleThread == [pc |-> "idle"]

\* the list the classmethod iterates over: the formatters, a single one wrapped
Formatters(kind, cls) ==
    IF kind = "player_message" THEN GetPlayerMessageParsingFormatter(cls).v
    ELSE LET f == GetContentParsingFormatter(cls)
         IN  IF f.t = "str" \/ f.t = "re.Pattern" THEN <<f>> ELSE f.v

NotOfCache == <<handler, line, clock, info, ret, exc, call, last, cmd>>

\* thread t calls cls.__get_content_parsers() or cls.__get_player_message_parsers()
CallCached(t, kind, cls) ==
    /\ threads[t].pc = "idle"
    /\ threads' = [threads EXCEPT ![t] = [pc |-> "lookup", kind |-> kind, cls |-> cls]]
    /\ UNCHANGED cache
    /\ UNCHANGED NotOfCache

\* lru_cache finds the key: the stored list is returned
CacheHit(t) ==
    /\ threads[t].pc = "lookup"
    /\ cache[threads[t].kind][CacheKey(threads[t].cls)] # PyNone
    /\ threads' = [threads EXCEPT ![t] =
                      [pc |-> "done", kind |-> threads[t].kind, cls |-> threads[t].cls,
                       result |-> cache[threads[t].kind][CacheKey(threads[t].cls)]]]
    /\ UNCHANGED cache
    /\ UNCHANGED NotOfCache

\* lru_cache does not find the key: the classmethod is entered
CacheMiss(t) ==
    /\ threads[t].pc = "lookup"
    /\ cache[threads[t].kind][CacheKey(threads[t].cls)] = PyNone
    /\ threads' = [threads EXCEPT ![t] =
                      [pc |-> "compute", kind |-> threads[t].kind, cls |-> threads[t].cls,
                       formatters |-> Formatters(threads[t].kind, threads[t].cls),
                       built |-> <<>>]]
    /\ UNCHANGED cache
    /\ UNCHANGED NotOfCache

\* the list comprehension of the classmethod adds the next parser
BuildNext(t) ==
    /\ threads[t].pc = "compute"
    /\ Len(threads[t].built) < Len(threads[t].formatters)
    /\ threads' = [threads EXCEPT ![t].built =
                      Append(@, ToParser(threads[t].formatters[Len(@) + 1]))]
    /\ UNCHANGED cache
    /\ UNCHANGED NotOfCache

\* the classmethod returns its list; lru_cache stores it under the key unless
\* the key was added during the call, and the caller gets the list
FinishCompute(t) ==
    /\ threads[t].pc = "compute"
    /\ Len(threads[t].built) = Len(threads[t].formatters)
    /\ cache' = IF cache[threads[t].kind][CacheKey(threads[t].cls)] = PyNone
                THEN [cache EXCEPT ![threads[t].kind][CacheKey(threads[t].cls)] =
                          PyList(threads[t].built)]
                ELSE cache
    /\ threads' = [threads EXCEPT ![t] =
                      [pc |-> "done", kind |-> threads[t].kind, cls |-> threads[t].cls,
                       result |-> PyList(threads[t].built)]]
    /\ UNCHANGED NotOfCache

\* the caller is done with the list
Return(t) ==
    /\ threads[t].pc = "done"
    /\ threads' = [threads EXCEPT ![t] = IdleThread]
    /\ UNCHANGED cache
    /\ UNCHANGED NotOfCache

InitCache ==
    /\ handler = "PumpkinHandler"
    /\ line = PyStr("")
    /\ clock = <<0, 0, 0>>
    /\ cache = EmptyCache
    /\ info = PyNone
    /\ ret = PyNone
    /\ exc = NoExc
    /\ call = NoCall
    /\ last = NoLast
    /\ threads = [t \in Threads |-> IdleThread]
    /\ cmd = NoCmd

NextCache ==
    \/ \E t \in Threads, kind \in CacheKinds, cls \in CacheClasses : CallCached(t, kind, cls)
    \/ \E t \in Threads : CacheHit(t)
    \/ \E t \in Threads : CacheMiss(t)
    \/ \E t \in Threads : BuildNext(t)
    \/ \E t \in Threads : FinishCompute(t)
    \/ \E t \in Threads : Return(t)

SpecCache == InitCache /\ [][NextCache]_vars

(***************************************************************************)
(* The message formatter and the commands                                  *)
(***************************************************************************)
\* json.dumps of one character of a str with ensure_ascii=False: only the
\* quote, the backslash and the control characters are escaped
JsonEscapeChar(c) ==
    CASE c = "\"" -> "\\\""
      [] c = "\\" -> "\\\\"
      [] c = "\n" -> "\\n"
      [] c = "\r" -> "\\r"
      [] c = "\t" -> "\\t"
      [] c = "\f" -> "\\f"
      [] c = ESC -> "\\u001b"
      [] OTHER -> c

RECURSIVE JsonEscape(_)
JsonEscape(s) == IF Len(s) = 0 THEN "" ELSE JsonEscapeChar(Chr(s, 1)) \o JsonEscape(Drop(s, 1))

\* json.dumps(s, ensure_ascii=False, separators=(',', ':')) for a str s
JsonDumpsStr(s) == "\"" \o JsonEscape(s) \o "\""

\* RText(text, color).to_json_str(): the compact JSON object of the component
RText(text, color) == [t |-> "RText", text |-> text, color |-> color]
ToJsonStr(m) ==
    "{\"text\":" \o JsonDumpsStr(m.text) \o
    (IF m.color = PyNone THEN "" ELSE ",\"color\":" \o JsonDumpsStr(m.color.v)) \o "}"

\* format_message
FormatMessage(message) ==
    IF message.t = "RText" THEN PyStr(ToJsonStr(message)) ELSE PyStr(JsonDumpsStr(message.v))

\* the position of the first replacement field {} of a format string, 0 when none
FirstField(template) ==
    LET I == {i \in 1..Len(template) : Chr(template, i) = "{" /\ Chr(template, i + 1) = "}"}
    IN  IF I = {} THEN 0 ELSE CHOOSE i \in I : \A j \in I : i <= j

RECURSIVE StrFormat(_, _)
\* template.format(*args) for a template whose fields are all {}: each field
\* takes the next argument, and the text put in is not scanned again
StrFormat(template, args) ==
    Bind(FirstField(template), LAMBDA k :
        IF k = 0 \/ Len(args) = 0 THEN template
        ELSE Take(template, k - 1) \o args[1] \o StrFormat(Drop(template, k + 1), Tail(args)))

\* get_send_message_command
GetSendMessageCommand(target, message) ==
    PyStr(StrFormat("tellraw {} {}", <<target, FormatMessage(message).v>>))

\* a broadcast addressed to the nearest player
GetBroadcastToNearest(message) == GetSendMessageCommand("@p", message)

\* get_broadcast_message_command
GetBroadcastMessageCommand(message) == GetSendMessageCommand("@a", message)

MaxMsgLen == 2
MsgChars == {"h", "\"", "\\", "\n", "{"}
RECURSIVE TextsOfLen(_)
TextsOfLen(n) == IF n = 0 THEN {""} ELSE {c \o t : c \in MsgChars, t \in TextsOfLen(n - 1)}
Texts == UNION {TextsOfLen(n) : n \in 0..MaxMsgLen}
Messages ==
    {PyStr(t) : t \in Texts \cup {"hi"}} \cup
    {RText(t, c) : t \in {"hi", "a\"b"}, c \in {PyNone, PyStr("red")}}
Targets == {"@a", "@p", "Steve", "{}"}

NotOfMsg == <<handler, line, clock, cache, info, ret, exc, call, last, threads>>

CallFormatMessage(message) ==
    /\ cmd' = [op |-> "format_message", target |-> "", message |-> message,
               out |-> FormatMessage(message)]
    /\ UNCHANGED NotOfMsg

CallGetSendMessageCommand(target, message) ==
    /\ cmd' = [op |-> "get_send_message_command", target |-> target, message |-> message,
               out |-> GetSendMessageCommand(target, message)]
    /\ UNCHANGED NotOfMsg

CallGetBroadcastMessageCommand(message) ==
    /\ cmd' = [op |-> "get_broadcast_message_command", target |-> "", message |-> message,
               out |-> GetBroadcastMessageCommand(message)]
    /\ UNCHANGED NotOfMsg

InitMsg ==
    /\ handler = "PumpkinHandler"
    /\ line = PyStr("")
    /\ clock = <<0, 0, 0>>
    /\ cache = EmptyCache
    /\ info = PyNone
    /\ ret = PyNone
    /\ exc = NoExc
    /\ call = NoCall
    /\ last = NoLast
    /\ threads = NoThreads
    /\ cmd = NoCmd

NextMsg ==
    \/ \E message \in Messages : CallFormatMessage(message)
    \/ \E target \in Targets, message \in Messages : CallGetSendMessageCommand(target, message)
    \/ \E message \in Messages : CallGetBroadcastMessageCommand(message)

SpecMsg == InitMsg /\ [][NextMsg]_vars

(***************************************************************************)
(* Properties of the parse calls and the extractors                        *)
(***************************************************************************)
StdoutCalled == call.op = "parse_server_stdout" /\ call.raw # PyNone
Min(S) == CHOOSE i \in S : \A j \in S : i <= j
\* the parsers of a list that match a content, by index
Matching(parsers, content) ==
    {i \in 1..Len(parsers) : ParserMatch(parsers[i], content) # PyNone}
ContentMatching == Matching(GetContentParsers(handler).v, call.raw.content.v)
Stamp(inf) == <<inf.hour, inf.min, inf.sec>>
PyStamp(now) == <<PyInt(now[1]), PyInt(now[2]), PyInt(now[3])>>

\* C1: when at least one content pattern matches, the patterns evaluated are
\* exactly those up to the lowest-index matching one, and logging_level and
\* content are the captures of that pattern.
C1_FirstMatchWins ==
    (StdoutCalled /\ ContentMatching # {}) =>
        LET i == Min(ContentMatching)
            m == ParserMatch(GetContentParsers(handler).v[i], call.raw.content.v)
        IN  /\ exc = NoExc
            /\ call.tried = [j \in 1..i |-> j]
            /\ call.parsed.logging_level = PyStr(m.v.logging)
            /\ call.parsed.content = PyStr(m.v.content)

\* two patterns match the content with different captures and only the first was evaluated
C1_Witness ==
    /\ StdoutCalled
    /\ Cardinality(ContentMatching) = 2
    /\ LET ps == GetContentParsers(handler).v
       IN  ParserMatch(ps[1], call.raw.content.v) # ParserMatch(ps[2], call.raw.content.v)
    /\ call.tried = <<1>>

\* C2: when no content pattern matches, _content_parse raises ValueError with
\* the offending text, the record stays as the classifier built it (zero
\* timestamp, no logging_level, content not replaced) and parse_server_stdout
\* returns no record.
C2_NoMatchFails ==
    (StdoutCalled /\ ContentMatching = {}) =>
        /\ exc = Raise("ValueError", "Unrecognized input: " \o call.raw.content.v)
        /\ info = call.raw
        /\ Stamp(info) = PyStamp(<<0, 0, 0>>)
        /\ info.logging_level = PyNone
        /\ info.content = PyStr(CleanConsoleColorCode(line.v))
        /\ info.player = PyNone
        /\ ret = PyNone

\* an unrecognised line was parsed at a time of day other than midnight
C2_Witness ==
    /\ StdoutCalled
    /\ exc # NoExc
    /\ exc.t = "ValueError"
    /\ call.now # <<0, 0, 0>>
    /\ Len(call.tried) = 2

\* a line '[LEVEL] MESSAGE': LEVEL non-empty and free of ']'
IsLevelMessage(s) ==
    StartsWith(s, "[") /\ FirstIn(s, {"]"}) >= 3 /\ Chr(s, FirstIn(s, {"]"}) + 1) = " "
LevelOf(s) == Take(Drop(s, 1), FirstIn(s, {"]"}) - 2)
MessageOf(s) == Drop(s, FirstIn(s, {"]"}) + 1)
\* a message that begins with a parenthesised number and a space: '(N) REST'
HasTag(msg) ==
    LET n == LeadingRun(Drop(msg, 1), Digit)
    IN  StartsWith(msg, "(") /\ n >= 1 /\ Chr(msg, n + 2) = ")" /\ Chr(msg, n + 3) = " "
AfterTag(msg) == Drop(msg, LeadingRun(Drop(msg, 1), Digit) + 3)
DefaultCalled == StdoutCalled /\ handler = "PumpkinHandler"

\* C3 as stated: for every line '[LEVEL] MESSAGE' the default pattern sets
\* logging_level to LEVEL, content to MESSAGE (also when MESSAGE begins with a
\* parenthesised number) and the timestamp to the time of the call.
C3_Original ==
    (DefaultCalled /\ IsLevelMessage(call.raw.content.v)) =>
        /\ exc = NoExc
        /\ call.parsed.logging_level = PyStr(LevelOf(call.raw.content.v))
        /\ call.parsed.content = PyStr(MessageOf(call.raw.content.v))
        /\ Stamp(call.parsed) = PyStamp(call.now)

\* C3 amended: for every line '[LEVEL] MESSAGE' whose MESSAGE has no line
\* break, the default pattern sets logging_level to LEVEL and the timestamp to
\* the time of the call; content is MESSAGE, except that a MESSAGE of the form
\* '(N) REST' with N decimal digits is taken as a numeric tag and content is REST.
C3_Amended ==
    (/\ DefaultCalled
     /\ IsLevelMessage(call.raw.content.v)
     /\ NoneIn(MessageOf(call.raw.content.v), Newline)) =>
        LET msg == MessageOf(call.raw.content.v)
        IN  /\ exc = NoExc
            /\ call.parsed.logging_level = PyStr(LevelOf(call.raw.content.v))
            /\ call.parsed.content = PyStr(IF HasTag(msg) THEN AfterTag(msg) ELSE msg)
            /\ Stamp(call.parsed) = PyStamp(call.now)

\* a tagged line was parsed at a time of day other than midnight
C3_Witness ==
    /\ DefaultCalled
    /\ exc = NoExc
    /\ IsLevelMessage(call.raw.content.v)
    /\ HasTag(MessageOf(call.raw.content.v))
    /\ call.parsed.content = PyStr("Steve joined the game")
    /\ call.now # <<0, 0, 0>>

ValidName(n) == Len(n) >= 3 /\ Len(n) <= 16 /\ \A i \in 1..Len(n) : Chr(n, i) \in WordChar
\* NAME when content is NAME followed by tail, for a valid NAME of a record
\* that is neither console input nor a player's chat
ExpectedName(inf, tail) ==
    LET name == Take(inf.content.v, Len(inf.content.v) - Len(tail))
    IN  IF /\ inf.source = "SERVER"
           /\ inf.player = PyNone
           /\ EndsWith(inf.content.v, tail)
           /\ ValidName(name)
        THEN PyStr(name) ELSE PyNone

\* C4: parse_player_joined / parse_player_left return NAME exactly when the
\* record is not user-originated, its whole content is 'NAME joined the game'
\* (resp. 'NAME left the game') and NAME is 3 to 16 letters, digits or
\* underscores; otherwise they return None.
C4_NameExtractors ==
    /\ last.op = "parse_player_joined" => last.result = ExpectedName(ret, " joined the game")
    /\ last.op = "parse_player_left" => last.result = ExpectedName(ret, " left the game")

\* a name of the greatest legal length was extracted
C4_Witness ==
    /\ last.op = "parse_player_joined"
    /\ last.result # PyNone
    /\ Len(last.result.v) = NameMax

\* C5 as stated: test_server_startup_done is true exactly when
\* parse_server_address returns a pair for the same record.
C5_Original ==
    last.op = "test_server_startup_done" =>
        (last.result.v <=> ParseServerAddress(ret) # PyNone)

\* the shape 'Starting Pumpkin VER (BUILD) for Minecraft VERSION (Protocol N)'
\* with BUILD an 8-character tag and N a decimal number: its VERSION, or None
VersionOfShape(s) ==
    LET head == "Starting Pumpkin "
        r1 == Drop(s, Len(head))
        k == FirstIn(r1, {" "})
        r2 == Drop(r1, k - 1)
        build == Take(Drop(r2, 2), 8)
        mid == ") for Minecraft "
        r4 == Drop(r2, 2 + 8 + Len(mid))
        body == Take(r4, Len(r4) - 1)
        front == Take(body, Len(body) - TrailingRun(body, Digit))
        version == Take(front, Len(front) - Len(" (Protocol "))
    IN  IF /\ StartsWith(s, head)
           /\ k >= 2
           /\ StartsWith(r2, " (")
           /\ Len(build) = 8
           /\ AllIn(build, Lower \cup Digit \cup {"_"})
           /\ StartsWith(Drop(r2, 2 + 8), mid)
           /\ EndsWith(r4, ")")
           /\ TrailingRun(body, Digit) >= 1
           /\ EndsWith(front, " (Protocol ")
           /\ Len(version) >= 1
           /\ NoneIn(version, Newline)
        THEN PyStr(version) ELSE PyNone

\* C6 as stated: for a server-originated record of the version shape
\* parse_server_version returns VERSION, and None for any other content.
C6_Original ==
    (last.op = "parse_server_version" /\ ~IsUser(ret)) =>
        last.result = VersionOfShape(ret.content.v)

ChatExtracted == StdoutCalled /\ exc = NoExc /\ ret.player # PyNone

\* C9 as stated: on a record whose chat extraction succeeded no extractor
\* fires, whatever the chat message is.
C9_Original ==
    (ChatExtracted /\ last.op # "none") => last.result \in {PyNone, PyBool(FALSE)}

\* the <<name, message>> of the first chat parser that matches with a valid name
ExpectedChat(parsers, content) ==
    LET V == {i \in Matching(parsers, content) :
                 ValidName(ParserMatch(parsers[i], content).v.name)}
        m == ParserMatch(parsers[Min(V)], content)
    IN  IF V = {} THEN PyNone ELSE PyTuple(<<m.v.name, m.v.message>>)

\* C10: chat extraction runs only when classification and content parsing
\* succeeded; it replaces player and content together, by NAME and MESSAGE of
\* the first chat pattern that matches with a valid NAME, or leaves both as
\* they were (also when a chat pattern matches with an invalid NAME); it never
\* touches logging_level, the timestamp or any other field.
C10_ChatAllOrNothing ==
    /\ (StdoutCalled /\ exc # NoExc) =>
           /\ info.player = PyNone
           /\ cache["player_message"][handler] = PyNone
    /\ (StdoutCalled /\ exc = NoExc) =>
           LET found == ExpectedChat(GetPlayerMessageParsers(handler).v, call.parsed.content.v)
           IN  /\ call.parsed.player = PyNone
               /\ cache["player_message"][handler] # PyNone
               /\ found = PyNone => ret = call.parsed
               /\ found # PyNone =>
                      ret = [call.parsed EXCEPT !.player = PyStr(found.v[1]),
                                                !.content = PyStr(found.v[2])]

\* the first chat pattern matched with an invalid name and the second one
\* gave the player
C10_Witness ==
    /\ ChatExtracted
    /\ handler = "SubA"
    /\ ret.player = PyStr("Bob")
    /\ ChatRegexFullmatch(call.parsed.content.v) # PyNone
    /\ ~ValidName(ChatRegexFullmatch(call.parsed.content.v).v.name)

\* the entries are whole: each is absent or the full list of its own class
C7_Entries ==
    /\ \A kind \in CacheKinds, cls \in Handlers :
           cache[kind][cls] \in {PyNone, Compute(kind, cls)}
    /\ \A t \in Threads :
           threads[t].pc = "done" => threads[t].result = Compute(threads[t].kind, threads[t].cls)
\* an entry, once stored, stays as it is
C7_Stable ==
    \A kind \in CacheKinds, cls \in Handlers :
        cache[kind][cls] # PyNone => cache'[kind][cls] = cache[kind][cls]

\* C7: under any interleaving of concurrent first calls, a cache entry is
\* absent or the completely built list of its own class (the default handler's
\* and the overriding subclass's entries are separate), every caller gets
\* that complete list, and a stored entry is never changed afterwards.
C7_CacheOnce == []C7_Entries /\ [][C7_Stable]_vars

\* one thread is half-way through building SubA's content parsers while
\* another has stored and got the complete list and the default entry is filled
C7_Witness ==
    \E t1, t2 \in Threads :
        /\ threads[t1].pc = "compute"
        /\ threads[t1].kind = "content" /\ threads[t1].cls = "SubA"
        /\ Len(threads[t1].built) = 1
        /\ threads[t2].pc = "done"
        /\ threads[t2].kind = "content" /\ threads[t2].cls = "SubA"
        /\ cache["content"]["SubA"] # PyNone
        /\ cache["content"]["PumpkinHandler"] # PyNone

RECURSIVE JsonUnescape(_)
\* the text a JSON string body stands for
JsonUnescape(b) ==
    IF Len(b) = 0 THEN ""
    ELSE IF Chr(b, 1) # "\\" THEN Chr(b, 1) \o JsonUnescape(Drop(b, 1))
    ELSE IF Chr(b, 2) = "n" THEN "\n" \o JsonUnescape(Drop(b, 2))
    ELSE IF Chr(b, 2) = "r" THEN "\r" \o JsonUnescape(Drop(b, 2))
    ELSE IF Chr(b, 2) = "t" THEN "\t" \o JsonUnescape(Drop(b, 2))
    ELSE IF Chr(b, 2) = "f" THEN "\f" \o JsonUnescape(Drop(b, 2))
    ELSE Chr(b, 2) \o JsonUnescape(Drop(b, 2))
RECURSIVE WellEscaped(_)
\* a JSON string body: no bare quote or control character, no dangling backslash
WellEscaped(b) ==
    IF Len(b) = 0 THEN TRUE
    ELSE IF Chr(b, 1) = "\\"
         THEN Chr(b, 2) \in {"\"", "\\", "n", "r", "t", "f"} /\ WellEscaped(Drop(b, 2))
    ELSE Chr(b, 1) \notin {"\"", "\n", "\r", "\t", "\f"} /\ WellEscaped(Drop(b, 1))
\* s is the compact JSON string literal of text
IsJsonLiteralOf(s, text) ==
    LET body == Take(Drop(s, 1), Len(s) - 2)
    IN  /\ Len(s) >= 2
        /\ Chr(s, 1) = "\"" /\ Chr(s, Len(s)) = "\""
        /\ WellEscaped(body)
        /\ JsonUnescape(body) = text

\* C8: get_send_message_command returns 'tellraw ' + target + ' ' +
\* format_message(message); get_broadcast_message_command returns what
\* get_send_message_command returns for target '@a'; format_message of a
\* plain text is its compact JSON string literal.
C8_Commands ==
    /\ cmd.op = "get_send_message_command" =>
           cmd.out = PyStr("tellraw " \o cmd.target \o " " \o FormatMessage(cmd.message).v)
    /\ cmd.op = "get_broadcast_message_command" =>
           /\ cmd.out = GetSendMessageCommand("@a", cmd.message)
           /\ cmd.out = PyStr("tellraw @a " \o FormatMessage(cmd.message).v)
    /\ (cmd.op = "format_message" /\ cmd.message.t = "str") =>
           IsJsonLiteralOf(cmd.out.v, cmd.message.v)
    /\ (cmd.op = "get_send_message_command" /\ cmd.target = "@a" /\ cmd.message = PyStr("hi")) =>
           cmd.out = PyStr("tellraw @a \"hi\"")

\* a broadcast of a text that needs escaping and holds a replacement field
C8_Witness ==
    /\ cmd.op = "get_broadcast_message_command"
    /\ cmd.message = PyStr("\"{")
    /\ cmd.out = PyStr("tellraw @a \"\\\"{\"")

====
